---- MODULE Spec2Model ----
(***************************************************************************)
(* Room state synchronisation of weather-checkin.                          *)
(*                                                                         *)
(* The repository holds four implementations of the same room store:       *)
(*   "socket"  - the Socket.IO handler        (src/unnamed/part_000)       *)
(*   "api"     - the serverless REST handler  (src/api/rooms.js)           *)
(*   "express" - the Express REST server      (src/server.js)              *)
(*   "local"   - the local-store client       (src/src/realtime.ts)        *)
(* A deployment runs one of them; `variant` says which one a behaviour is  *)
(* about, and every handler is an action of its variant.                   *)
(*                                                                         *)
(* Spec and SpecRooms run the handlers of one store by themselves.         *)
(* SpecPush adds the 'state' events on their way to the Socket.IO clients  *)
(* (src/unnamed/part_003).  SpecTabs, SpecTabsFair and SpecTabRooms run    *)
(* the local-store client in two browser tabs that share localStorage.     *)
(* SpecApp runs the App (src/unnamed/part_004) on two pages with that      *)
(* Socket.IO client against the Socket.IO handler, with lost connections   *)
(* and page reloads.  SpecLife and SpecSweep follow the RealtimeClient      *)
(* instances of one page of the local-store client: constructions, handler *)
(* registrations, destroy calls and the poll timer, and the constructor's  *)
(* sweep of old rooms while the clock runs past a day.                     *)
(***************************************************************************)
EXTENDS Integers, Sequences, FiniteSets, TLC

VARIABLES
    variant,          \* which implementation this behaviour runs
    now,              \* Date.now(), in abstract ticks
    rooms,            \* the `rooms` Map: room id -> room
    joinedRoomId,     \* socket: the closure variable of each connection
    conn,             \* socket: "open" or "closed", per connection
    currentRoomId,    \* local: module variable
    sioRooms,         \* socket: the connections socket.join put in each room
    currentUserName,  \* local: module variable
    last,             \* the last handler that ran, its arguments and its answer
    out,              \* the room states the last handler sent out
    seq,              \* socket: the number of 'state' events the server has emitted
    inbox,            \* socket: the 'state' events on their way to each connection
    handled,          \* socket client: the event its 'state' listener ran on last
    lsRooms,          \* tabs: localStorage['weather-checkin-rooms']
    lsSession,        \* tabs: localStorage['weather-checkin-session']
    tabOpen,          \* tabs: the page of the tab is loaded
    tabRooms,         \* tabs: the module variable `rooms` of each tab
    tabRoomId,        \* tabs: the module variable `currentRoomId` of each tab
    tabUserName,      \* tabs: the module variable `currentUserName` of each tab
    tabShown,         \* tabs: the state each tab's handlers were called with last
    tabTick,          \* tabs: the interval of the tab has run an odd number of times
    appState,         \* App: the `state` the App on each connection's page holds
    cliRoomId,        \* socket client: the module variable `currentRoomId` of each page
    cliSession,       \* socket client: localStorage['weather-checkin-session'] of each browser
    pollInterval,     \* tabs: the module variable `pollInterval` of each tab is set
    timers,           \* tabs: the number of running setInterval timers of each tab
    stateHandlers     \* tabs: the length of the module variable `stateHandlers` of each tab

vars == <<variant, now, rooms, joinedRoomId, conn, sioRooms, currentRoomId,
          currentUserName, last, out, seq, inbox, handled, lsRooms, lsSession,
          tabOpen, tabRooms, tabRoomId, tabUserName, tabShown, tabTick,
          appState, cliRoomId, cliSession, pollInterval, timers, stateHandlers>>

-----------------------------------------------------------------------------
(* Bounds and inputs *)

MaxTime == 1          \* the clock stops advancing here
MaxParts == 3         \* a join adds an entry only while the store holds fewer
MaxMsgs == 3          \* the server emits at most this many 'state' events

Variants == {"socket", "api", "express", "local"}
RoomIds == {"r1", "r2"}
Sockets == {"s1", "s2"}
PIds == {"p1", "p2"}
Tabs == {"t1", "t2"}

Null == "<null>"      \* JS null / undefined

\* Names are sequences of characters, so that slice(0, 40) is computed.
NameMax == 40
Blank == << >>
NullName == <<"<null>">>   \* null where a name is expected
Long41 == [i \in 1..(NameMax + 1) |-> IF i = NameMax + 1 THEN "z" ELSE "x"]
Guest == <<"G", "ae", "s", "t">>     \* the filler 'Gäst'
X40 == SubSeq(Long41, 1, NameMax)
NameInputs == {Blank, Guest, Long41}

WEATHER_ORDER == <<"sun", "partly", "cloud", "rain", "storm">>
Catalog == {WEATHER_ORDER[i] : i \in 1..Len(WEATHER_ORDER)}
\* what a caller may send as a symbol: two catalog entries, a string outside
\* the catalog, and the empty string
SymbolInputs == {"sun", "rain", "bogus", ""}

Min(a, b) == IF a < b THEN a ELSE b

-----------------------------------------------------------------------------
(* JavaScript helpers *)

\* truthiness of a string-or-null value
Truthy(v) == v # Null /\ v # ""

\* String(name || 'Gäst').slice(0, 40)
StoredName(name) ==
    LET n == IF name = Blank THEN Guest ELSE name
    IN SubSeq(n, 1, Min(Len(n), NameMax))

\* An insertion-ordered Map is a sequence of entries [id, name, symbol].
MapHas(m, k) == \E i \in 1..Len(m) : m[i].id = k
MapIndex(m, k) == CHOOSE i \in 1..Len(m) : m[i].id = k
MapSet(m, k, name, symbol) ==
    LET e == [id |-> k, name |-> name, symbol |-> symbol]
    IN IF MapHas(m, k) THEN [m EXCEPT ![MapIndex(m, k)] = e] ELSE Append(m, e)
MapDelete(m, k) == SelectSeq(m, LAMBDA e : e.id # k)

\* rooms.set(k, v)
Put(rs, k, v) == [x \in DOMAIN rs \cup {k} |-> IF x = k THEN v ELSE rs[x]]

\* ps.findIndex(p => p.name === name), 0 standing for -1
FindIndex(ps, name) ==
    IF \E i \in 1..Len(ps) : ps[i].name = name
    THEN CHOOSE i \in 1..Len(ps) :
            ps[i].name = name /\ \A j \in 1..(i - 1) : ps[j].name # name
    ELSE 0

RECURSIVE SumLen(_, _)
SumLen(rs, ids) ==
    IF ids = {} THEN 0
    ELSE LET r == CHOOSE x \in ids : TRUE
         IN Len(rs[r].participants) + SumLen(rs, ids \ {r})
\* the number of participant entries in the store
Population(rs) == SumLen(rs, DOMAIN rs)

-----------------------------------------------------------------------------
(* The server-side room store (identical in the three servers) *)

\* a getRoom whose new room is anonymous from the start
NewRoomAnonymous ==
    [participants |-> << >>, symbols |-> WEATHER_ORDER, ended |-> FALSE,
     createdAt |-> now, anonymous |-> TRUE]

NewRoom ==
    [participants |-> << >>, symbols |-> WEATHER_ORDER, ended |-> FALSE,
     createdAt |-> now, anonymous |-> FALSE]

\* getRoom(roomId): the store after the call; the room is rs[roomId]
getRoom(rs, roomId) ==
    IF roomId \in DOMAIN rs THEN rs ELSE Put(rs, roomId, NewRoom)

\* one step of summarize's second loop
Count(counts, p) ==
    IF Truthy(p.symbol)
    THEN [k \in DOMAIN counts \cup {p.symbol} |->
            IF k = p.symbol
            THEN (IF k \in DOMAIN counts THEN counts[k] ELSE 0) + 1
            ELSE counts[k]]
    ELSE counts

RECURSIVE CountAll(_, _)
CountAll(counts, ps) ==
    IF ps = << >> THEN counts ELSE CountAll(Count(counts, Head(ps)), Tail(ps))

summarize(room) ==
    CountAll([sym \in {room.symbols[i] : i \in 1..Len(room.symbols)} |-> 0],
             room.participants)

\* roomState(roomId) of a room that exists
roomState(rs, roomId) ==
    LET room == rs[roomId]
    IN [roomId |-> roomId, createdAt |-> room.createdAt, ended |-> room.ended,
        anonymous |-> room.anonymous, symbols |-> room.symbols,
        participants |-> [i \in 1..Len(room.participants) |->
                             [name |-> room.participants[i].name,
                              symbol |-> room.participants[i].symbol]],
        summary |-> summarize(room)]

-----------------------------------------------------------------------------
(* The record of the last handler: which one ran, on which room, the symbol *)
(* it was sent, what the caller got back, and whether the caller's identity *)
(* resolved to a participant already in the room.                           *)

Ev(op, rid, sym, res, hit) == [op |-> op, rid |-> rid, sym |-> sym, res |-> res, hit |-> hit]

\* What a handler sends out: nothing, or one room state `st` of room `rid` to
\* the receivers `to`: the connections of a Socket.IO room for
\* io.to(rid).emit('state', st), the asking connection for a callback, the
\* requester for a REST response body, the registered handlers for notifyState.
NoOut == << >>
Out(rid, to, st) == << [room |-> rid, to |-> to, state |-> st] >>
Requester == {"requester"}
Handlers == {"stateHandlers"}

\* the connections of Socket.IO room rid
InRoom(sio, rid) == {s \in Sockets : rid \in sio[s]}

-----------------------------------------------------------------------------
Init ==
    /\ variant \in Variants
    /\ now = 0
    /\ rooms = << >>
    /\ joinedRoomId = [s \in Sockets |-> Null]
    /\ conn = [s \in Sockets |-> "open"]
    /\ sioRooms = [s \in Sockets |-> {}]
    /\ currentRoomId = Null
    /\ currentUserName = NullName
    /\ last = Ev("init", Null, Null, "none", FALSE)
    /\ out = NoOut
    /\ seq = 0
    /\ inbox = [s \in Sockets |-> << >>]
    /\ handled = [s \in Sockets |-> << >>]
    /\ lsRooms = << >>
    /\ lsSession = << >>
    /\ tabOpen = [t \in Tabs |-> FALSE]
    /\ tabRooms = [t \in Tabs |-> << >>]
    /\ tabRoomId = [t \in Tabs |-> Null]
    /\ tabUserName = [t \in Tabs |-> NullName]
    /\ tabShown = [t \in Tabs |-> << >>]
    /\ tabTick = [t \in Tabs |-> FALSE]
    /\ appState = [s \in Sockets |-> << >>]
    /\ cliRoomId = [s \in Sockets |-> Null]
    /\ cliSession = [s \in Sockets |-> << >>]
    /\ pollInterval = [t \in Tabs |-> FALSE]
    /\ timers = [t \in Tabs |-> 0]
    /\ stateHandlers = [t \in Tabs |-> 0]

sockVars == <<joinedRoomId, conn, sioRooms>>
localVars == <<currentRoomId, currentUserName>>
chanVars == <<seq, inbox, handled>>
appVars == <<appState, cliRoomId, cliSession>>
lifeVars == <<pollInterval, timers, stateHandlers>>
tabVars == <<lsRooms, lsSession, tabOpen, tabRooms, tabRoomId, tabUserName, tabShown,
             tabTick, lifeVars>>

\* time passes between two handlers
Tick ==
    /\ now < MaxTime
    /\ now' = now + 1
    /\ last' = Ev("tick", Null, Null, "none", FALSE)
    /\ out' = NoOut
    /\ UNCHANGED <<variant, rooms, sockVars, localVars>>

-----------------------------------------------------------------------------
(* Socket.IO handler: src/unnamed/part_000 *)

SockCreateRoom(s, rid) ==
    /\ variant = "socket" /\ conn[s] = "open"
    /\ rooms' = getRoom(rooms, rid)
    /\ last' = Ev("create", rid, Null, "ok", FALSE)
    /\ out' = NoOut
    /\ UNCHANGED <<variant, now, sockVars, localVars>>

SockJoinRoom(s, rid, name) ==
    /\ variant = "socket" /\ conn[s] = "open"
    /\ LET rs == getRoom(rooms, rid)
           ps == rs[rid].participants
       IN /\ MapHas(ps, s) \/ Population(rooms) < MaxParts
          /\ joinedRoomId' = [joinedRoomId EXCEPT ![s] = rid]
          /\ sioRooms' = [sioRooms EXCEPT ![s] = @ \cup {rid}]
          /\ rooms' = [rs EXCEPT ![rid].participants = MapSet(ps, s, StoredName(name), Null)]
          /\ out' = Out(rid, InRoom(sioRooms', rid), roomState(rooms', rid))
          /\ last' = Ev("join", rid, Null, "ok", MapHas(ps, s))
    /\ UNCHANGED <<variant, now, conn, localVars>>

\* select without the `if (room.ended) return` line
SockSelectIgnoringEnded(s, symbol) ==
    /\ variant = "socket" /\ conn[s] = "open"
    /\ LET rid == joinedRoomId[s]
       IN IF rid = Null
          THEN /\ last' = Ev("select", Null, symbol, "none", FALSE)
               /\ out' = NoOut
               /\ UNCHANGED rooms
          ELSE LET rs == getRoom(rooms, rid)
                   ps == rs[rid].participants
               IN /\ last' = Ev("select", rid, symbol, "none", MapHas(ps, s))
                  /\ IF symbol \notin Catalog \/ ~MapHas(ps, s)
                     THEN /\ rooms' = rs
                          /\ out' = NoOut
                     ELSE /\ rooms' = [rs EXCEPT ![rid].participants[MapIndex(ps, s)].symbol = symbol]
                          /\ out' = Out(rid, InRoom(sioRooms, rid), roomState(rooms', rid))
    /\ UNCHANGED <<variant, now, sockVars, localVars>>

SockSelect(s, symbol) ==
    /\ variant = "socket" /\ conn[s] = "open"
    /\ LET rid == joinedRoomId[s]
       IN IF rid = Null
          THEN /\ last' = Ev("select", Null, symbol, "none", FALSE)
               /\ out' = NoOut
               /\ UNCHANGED rooms
          ELSE LET rs == getRoom(rooms, rid)
                   ps == rs[rid].participants
               IN /\ last' = Ev("select", rid, symbol, "none", MapHas(ps, s))
                  /\ IF rs[rid].ended \/ symbol \notin Catalog \/ ~MapHas(ps, s)
                     THEN /\ rooms' = rs
                          /\ out' = NoOut
                     ELSE /\ rooms' = [rs EXCEPT ![rid].participants[MapIndex(ps, s)].symbol = symbol]
                          /\ out' = Out(rid, InRoom(sioRooms, rid), roomState(rooms', rid))
    /\ UNCHANGED <<variant, now, sockVars, localVars>>

\* end_round that emits the state computed before it set room.ended
SockEndRoundStaleEmit(s) ==
    /\ variant = "socket" /\ conn[s] = "open"
    /\ LET rid == joinedRoomId[s]
       IN IF rid = Null
          THEN /\ last' = Ev("end", Null, Null, "none", FALSE)
               /\ out' = NoOut
               /\ UNCHANGED rooms
          ELSE /\ rooms' = [getRoom(rooms, rid) EXCEPT ![rid].ended = TRUE]
               /\ out' = Out(rid, InRoom(sioRooms, rid), roomState(rooms, rid))
               /\ last' = Ev("end", rid, Null, "none", FALSE)
    /\ UNCHANGED <<variant, now, sockVars, localVars>>

\* end_round that also clears every participant's symbol
SockEndRoundClearing(s) ==
    /\ variant = "socket" /\ conn[s] = "open"
    /\ LET rid == joinedRoomId[s]
       IN IF rid = Null
          THEN /\ last' = Ev("end", Null, Null, "none", FALSE)
               /\ out' = NoOut
               /\ UNCHANGED rooms
          ELSE LET ps == getRoom(rooms, rid)[rid].participants
               IN /\ rooms' = [getRoom(rooms, rid) EXCEPT
                                  ![rid].ended = TRUE,
                                  ![rid].participants =
                                      [i \in 1..Len(ps) |-> [ps[i] EXCEPT !.symbol = Null]]]
                  /\ out' = Out(rid, InRoom(sioRooms, rid), roomState(rooms', rid))
                  /\ last' = Ev("end", rid, Null, "none", FALSE)
    /\ UNCHANGED <<variant, now, sockVars, localVars>>

SockEndRound(s) ==
    /\ variant = "socket" /\ conn[s] = "open"
    /\ LET rid == joinedRoomId[s]
       IN IF rid = Null
          THEN /\ last' = Ev("end", Null, Null, "none", FALSE)
               /\ out' = NoOut
               /\ UNCHANGED rooms
          ELSE /\ rooms' = [getRoom(rooms, rid) EXCEPT ![rid].ended = TRUE]
               /\ out' = Out(rid, InRoom(sioRooms, rid), roomState(rooms', rid))
               /\ last' = Ev("end", rid, Null, "none", FALSE)
    /\ UNCHANGED <<variant, now, sockVars, localVars>>

\* toggle_anonymous without the `if (!joinedRoomId) return` line
SockToggleAnonymousUnjoined(s, anonymous) ==
    /\ variant = "socket" /\ conn[s] = "open"
    /\ LET rid == joinedRoomId[s]
       IN /\ rooms' = [getRoom(rooms, rid) EXCEPT ![rid].anonymous = anonymous]
          /\ out' = Out(rid, InRoom(sioRooms, rid), roomState(rooms', rid))
          /\ last' = Ev("toggle", rid, Null, "none", FALSE)
    /\ UNCHANGED <<variant, now, sockVars, localVars>>

SockToggleAnonymous(s, anonymous) ==
    /\ variant = "socket" /\ conn[s] = "open"
    /\ LET rid == joinedRoomId[s]
       IN IF rid = Null
          THEN /\ last' = Ev("toggle", Null, Null, "none", FALSE)
               /\ out' = NoOut
               /\ UNCHANGED rooms
          ELSE /\ rooms' = [getRoom(rooms, rid) EXCEPT ![rid].anonymous = anonymous]
               /\ out' = Out(rid, InRoom(sioRooms, rid), roomState(rooms', rid))
               /\ last' = Ev("toggle", rid, Null, "none", FALSE)
    /\ UNCHANGED <<variant, now, sockVars, localVars>>

SockGetState(s) ==
    /\ variant = "socket" /\ conn[s] = "open"
    /\ LET rid == joinedRoomId[s]
       IN IF rid = Null
          THEN /\ last' = Ev("get", Null, Null, "null", FALSE)
               /\ out' = NoOut
               /\ UNCHANGED rooms
          ELSE /\ rooms' = getRoom(rooms, rid)
               /\ out' = Out(rid, {s}, roomState(rooms', rid))
               /\ last' = Ev("get", rid, Null, "state", FALSE)
    /\ UNCHANGED <<variant, now, sockVars, localVars>>

SockDisconnect(s) ==
    /\ variant = "socket" /\ conn[s] = "open"
    /\ conn' = [conn EXCEPT ![s] = "closed"]
    \* Socket.IO takes a closing connection out of its rooms before it fires
    \* 'disconnect'
    /\ sioRooms' = [sioRooms EXCEPT ![s] = {}]
    /\ LET rid == joinedRoomId[s]
       IN IF rid = Null
          THEN /\ last' = Ev("disconnect", Null, Null, "none", FALSE)
               /\ out' = NoOut
               /\ UNCHANGED rooms
          ELSE LET rs == getRoom(rooms, rid)
               IN /\ rooms' = [rs EXCEPT ![rid].participants = MapDelete(rs[rid].participants, s)]
                  /\ out' = Out(rid, InRoom(sioRooms', rid), roomState(rooms', rid))
                  /\ last' = Ev("disconnect", rid, Null, "none", MapHas(rs[rid].participants, s))
    /\ UNCHANGED <<variant, now, joinedRoomId, localVars>>

-----------------------------------------------------------------------------
(* Serverless REST handler: src/api/rooms.js *)

ApiCreate(rid) ==
    /\ variant = "api"
    /\ rooms' = getRoom(rooms, rid)
    /\ last' = Ev("create", rid, Null, "200", FALSE)
    /\ out' = NoOut
    /\ UNCHANGED <<variant, now, sockVars, localVars>>

ApiJoin(rid, name, participantId) ==
    /\ variant = "api"
    /\ LET rs == getRoom(rooms, rid)
           ps == rs[rid].participants
       IN /\ ~MapHas(ps, participantId) /\ Population(rooms) < MaxParts
          /\ rooms' = [rs EXCEPT ![rid].participants =
                          MapSet(ps, participantId, StoredName(name), Null)]
          /\ out' = Out(rid, Requester, roomState(rooms', rid))
          /\ last' = Ev("join", rid, Null, "200", FindIndex(ps, StoredName(name)) # 0)
    /\ UNCHANGED <<variant, now, sockVars, localVars>>

ApiSelect(rid, name, symbol) ==
    /\ variant = "api"
    /\ LET rs == getRoom(rooms, rid)
           ps == rs[rid].participants
           i == FindIndex(ps, name)
       IN IF rs[rid].ended
          THEN /\ rooms' = rs
               /\ out' = NoOut
               /\ last' = Ev("select", rid, symbol, "400", i # 0)
          ELSE /\ rooms' = IF i # 0
                           THEN [rs EXCEPT ![rid].participants[i].symbol = symbol]
                           ELSE rs
               /\ out' = Out(rid, Requester, roomState(rooms', rid))
               /\ last' = Ev("select", rid, symbol, "200", i # 0)
    /\ UNCHANGED <<variant, now, sockVars, localVars>>

\* an end that flips room.ended instead of setting it
ApiEndFlipping(rid) ==
    /\ variant = "api"
    /\ rooms' = [getRoom(rooms, rid) EXCEPT ![rid].ended = ~@]
    /\ out' = Out(rid, Requester, roomState(rooms', rid))
    /\ last' = Ev("end", rid, Null, "200", FALSE)
    /\ UNCHANGED <<variant, now, sockVars, localVars>>

ApiEnd(rid) ==
    /\ variant = "api"
    /\ rooms' = [getRoom(rooms, rid) EXCEPT ![rid].ended = TRUE]
    /\ out' = Out(rid, Requester, roomState(rooms', rid))
    /\ last' = Ev("end", rid, Null, "200", FALSE)
    /\ UNCHANGED <<variant, now, sockVars, localVars>>

ApiToggleAnonymous(rid, anonymous) ==
    /\ variant = "api"
    /\ rooms' = [getRoom(rooms, rid) EXCEPT ![rid].anonymous = anonymous]
    /\ out' = Out(rid, Requester, roomState(rooms', rid))
    /\ last' = Ev("toggle", rid, Null, "200", FALSE)
    /\ UNCHANGED <<variant, now, sockVars, localVars>>

ApiGet(rid) ==
    /\ variant = "api"
    /\ rooms' = getRoom(rooms, rid)
    /\ out' = Out(rid, Requester, roomState(rooms', rid))
    /\ last' = Ev("get", rid, Null, "200", FALSE)
    /\ UNCHANGED <<variant, now, sockVars, localVars>>

-----------------------------------------------------------------------------
(* Express REST server: src/server.js *)

ExpressCreate(rid) ==
    /\ variant = "express"
    /\ rooms' = getRoom(rooms, rid)
    /\ last' = Ev("create", rid, Null, "200", FALSE)
    /\ out' = NoOut
    /\ UNCHANGED <<variant, now, sockVars, localVars>>

ExpressJoin(rid, name, participantId) ==
    /\ variant = "express"
    /\ LET rs == getRoom(rooms, rid)
           ps == rs[rid].participants
       IN /\ ~MapHas(ps, participantId) /\ Population(rooms) < MaxParts
          /\ rooms' = [rs EXCEPT ![rid].participants =
                          MapSet(ps, participantId, StoredName(name), Null)]
          /\ out' = Out(rid, Requester, roomState(rooms', rid))
          /\ last' = Ev("join", rid, Null, "200", FindIndex(ps, StoredName(name)) # 0)
    /\ UNCHANGED <<variant, now, sockVars, localVars>>

ExpressSelect(rid, name, symbol) ==
    /\ variant = "express"
    /\ LET rs == getRoom(rooms, rid)
           ps == rs[rid].participants
           i == FindIndex(ps, name)
       IN IF rs[rid].ended
          THEN /\ rooms' = rs
               /\ out' = NoOut
               /\ last' = Ev("select", rid, symbol, "400", i # 0)
          ELSE /\ rooms' = IF i # 0
                           THEN [rs EXCEPT ![rid].participants[i].symbol = symbol]
                           ELSE rs
               /\ out' = Out(rid, Requester, roomState(rooms', rid))
               /\ last' = Ev("select", rid, symbol, "200", i # 0)
    /\ UNCHANGED <<variant, now, sockVars, localVars>>

ExpressEnd(rid) ==
    /\ variant = "express"
    /\ rooms' = [getRoom(rooms, rid) EXCEPT ![rid].ended = TRUE]
    /\ out' = Out(rid, Requester, roomState(rooms', rid))
    /\ last' = Ev("end", rid, Null, "200", FALSE)
    /\ UNCHANGED <<variant, now, sockVars, localVars>>

ExpressToggleAnonymous(rid, anonymous) ==
    /\ variant = "express"
    /\ rooms' = [getRoom(rooms, rid) EXCEPT ![rid].anonymous = anonymous]
    /\ out' = Out(rid, Requester, roomState(rooms', rid))
    /\ last' = Ev("toggle", rid, Null, "200", FALSE)
    /\ UNCHANGED <<variant, now, sockVars, localVars>>

ExpressGet(rid) ==
    /\ variant = "express"
    /\ rooms' = getRoom(rooms, rid)
    /\ out' = Out(rid, Requester, roomState(rooms', rid))
    /\ last' = Ev("get", rid, Null, "200", FALSE)
    /\ UNCHANGED <<variant, now, sockVars, localVars>>

-----------------------------------------------------------------------------
(* Local-store client: src/src/realtime.ts *)

\* an updateSummary that keeps the counts the room already stores
updateSummaryKeepingCounts(room) == room.summary

\* updateSummary(room): the summary recomputed from the participants
updateSummary(room) ==
    CountAll([sym \in {"sun", "partly", "cloud", "rain", "storm"} |-> 0], room.participants)

LocalCreateRoom(id) ==
    /\ variant = "local"
    /\ rooms' = Put(rooms, id,
                    [roomId |-> id, createdAt |-> now, ended |-> FALSE, anonymous |-> FALSE,
                     symbols |-> <<"sun", "partly", "cloud", "rain", "storm">>,
                     participants |-> << >>,
                     summary |-> [sym \in {"sun", "partly", "cloud", "rain", "storm"} |-> 0]])
    /\ currentRoomId' = id
    /\ out' = Out(id, Handlers, rooms'[id])
    /\ last' = Ev("create", id, Null, "ok", FALSE)
    /\ UNCHANGED <<variant, now, sockVars, currentUserName>>

\* a joinRoom that adds an entry without looking for one of that name
LocalJoinRoomAppending(roomId, name) ==
    /\ variant = "local"
    /\ IF roomId \notin DOMAIN rooms
       THEN /\ last' = Ev("join", roomId, Null, "false", FALSE)
            /\ out' = NoOut
            /\ UNCHANGED <<rooms, localVars>>
       ELSE LET ps == rooms[roomId].participants
            IN /\ Population(rooms) < MaxParts
               /\ rooms' = [rooms EXCEPT ![roomId].participants =
                               Append(ps, [name |-> name, symbol |-> Null])]
               /\ currentRoomId' = roomId
               /\ currentUserName' = name
               /\ out' = Out(roomId, Handlers, rooms'[roomId])
               /\ last' = Ev("join", roomId, Null, "true", FindIndex(ps, name) # 0)
    /\ UNCHANGED <<variant, now, sockVars>>

LocalJoinRoom(roomId, name) ==
    /\ variant = "local"
    /\ IF roomId \notin DOMAIN rooms
       THEN /\ last' = Ev("join", roomId, Null, "false", FALSE)
            /\ out' = NoOut
            /\ UNCHANGED <<rooms, localVars>>
       ELSE LET ps == rooms[roomId].participants
                existingIndex == FindIndex(ps, name)
            IN /\ existingIndex # 0 \/ Population(rooms) < MaxParts
               /\ rooms' = [rooms EXCEPT ![roomId].participants =
                               IF existingIndex # 0
                               THEN [ps EXCEPT ![existingIndex] =
                                        [name |-> name, symbol |-> ps[existingIndex].symbol]]
                               ELSE Append(ps, [name |-> name, symbol |-> Null])]
               /\ currentRoomId' = roomId
               /\ currentUserName' = name
               /\ out' = Out(roomId, Handlers, rooms'[roomId])
               /\ last' = Ev("join", roomId, Null, "true", existingIndex # 0)
    /\ UNCHANGED <<variant, now, sockVars>>

LocalGetState ==
    /\ variant = "local"
    /\ IF currentRoomId # Null /\ currentRoomId \in DOMAIN rooms
       THEN /\ last' = Ev("get", currentRoomId, Null, "state", FALSE)
            /\ out' = Out(currentRoomId, Requester, rooms[currentRoomId])
       ELSE /\ last' = Ev("get", currentRoomId, Null, "null", FALSE)
            /\ out' = NoOut
    /\ UNCHANGED <<variant, now, rooms, sockVars, localVars>>

LocalSelect(symbol) ==
    /\ variant = "local"
    /\ IF currentRoomId = Null \/ currentUserName = NullName \/ currentUserName = Blank
          \/ currentRoomId \notin DOMAIN rooms
       THEN /\ last' = Ev("select", currentRoomId, symbol, "void", FALSE)
            /\ out' = NoOut
            /\ UNCHANGED rooms
       ELSE LET room == rooms[currentRoomId]
                ps == room.participants
                participantIndex == FindIndex(ps, currentUserName)
                set == [room EXCEPT !.participants =
                           IF participantIndex # 0
                           THEN [ps EXCEPT ![participantIndex].symbol = symbol]
                           ELSE Append(ps, [name |-> currentUserName, symbol |-> symbol])]
            IN /\ last' = Ev("select", currentRoomId, symbol, "void", participantIndex # 0)
               /\ IF room.ended
                  THEN /\ UNCHANGED rooms
                       /\ out' = NoOut
                  ELSE /\ rooms' = [rooms EXCEPT ![currentRoomId] =
                                       [set EXCEPT !.summary = updateSummary(set)]]
                       /\ out' = Out(currentRoomId, Handlers, rooms'[currentRoomId])
    /\ UNCHANGED <<variant, now, sockVars, localVars>>

LocalEndRound ==
    /\ variant = "local"
    /\ last' = Ev("end", currentRoomId, Null, "void", FALSE)
    /\ IF currentRoomId # Null /\ currentRoomId \in DOMAIN rooms
       THEN /\ rooms' = [rooms EXCEPT ![currentRoomId].ended = TRUE]
            /\ out' = Out(currentRoomId, Handlers, rooms'[currentRoomId])
       ELSE /\ UNCHANGED rooms
            /\ out' = NoOut
    /\ UNCHANGED <<variant, now, sockVars, localVars>>

\* a setAnonymous that also reopens the round
LocalSetAnonymousReopening(anonymous) ==
    /\ variant = "local"
    /\ last' = Ev("toggle", currentRoomId, Null, "void", FALSE)
    /\ IF currentRoomId # Null /\ currentRoomId \in DOMAIN rooms
       THEN /\ rooms' = [rooms EXCEPT ![currentRoomId].anonymous = anonymous,
                                      ![currentRoomId].ended = FALSE]
            /\ out' = Out(currentRoomId, Handlers, rooms'[currentRoomId])
       ELSE /\ UNCHANGED rooms
            /\ out' = NoOut
    /\ UNCHANGED <<variant, now, sockVars, localVars>>

LocalSetAnonymous(anonymous) ==
    /\ variant = "local"
    /\ last' = Ev("toggle", currentRoomId, Null, "void", FALSE)
    /\ IF currentRoomId # Null /\ currentRoomId \in DOMAIN rooms
       THEN /\ rooms' = [rooms EXCEPT ![currentRoomId].anonymous = anonymous]
            /\ out' = Out(currentRoomId, Handlers, rooms'[currentRoomId])
       ELSE /\ UNCHANGED rooms
            /\ out' = NoOut
    /\ UNCHANGED <<variant, now, sockVars, localVars>>

-----------------------------------------------------------------------------
\* every handler of the four variants, on room ids of R, with names of N and
\* symbols of Y, seen by itself: without the transport to the Socket.IO
\* clients and without other tabs
NextOn(R, N, Y) ==
    \/ Tick /\ UNCHANGED <<chanVars, appVars, tabVars>>
    \/ \E s \in Sockets, rid \in R : SockCreateRoom(s, rid) /\ UNCHANGED <<chanVars, appVars, tabVars>>
    \/ \E s \in Sockets, rid \in R, name \in N : SockJoinRoom(s, rid, name) /\ UNCHANGED <<chanVars, appVars, tabVars>>
    \/ \E s \in Sockets, symbol \in Y : SockSelect(s, symbol) /\ UNCHANGED <<chanVars, appVars, tabVars>>
    \/ \E s \in Sockets : SockEndRound(s) /\ UNCHANGED <<chanVars, appVars, tabVars>>
    \/ \E s \in Sockets, anonymous \in BOOLEAN : SockToggleAnonymous(s, anonymous) /\ UNCHANGED <<chanVars, appVars, tabVars>>
    \/ \E s \in Sockets : SockGetState(s) /\ UNCHANGED <<chanVars, appVars, tabVars>>
    \/ \E s \in Sockets : SockDisconnect(s) /\ UNCHANGED <<chanVars, appVars, tabVars>>
    \/ \E rid \in R : ApiCreate(rid) /\ UNCHANGED <<chanVars, appVars, tabVars>>
    \/ \E rid \in R, name \in N, pid \in PIds : ApiJoin(rid, name, pid) /\ UNCHANGED <<chanVars, appVars, tabVars>>
    \/ \E rid \in R, name \in N, symbol \in Y : ApiSelect(rid, name, symbol) /\ UNCHANGED <<chanVars, appVars, tabVars>>
    \/ \E rid \in R : ApiEnd(rid) /\ UNCHANGED <<chanVars, appVars, tabVars>>
    \/ \E rid \in R, anonymous \in BOOLEAN : ApiToggleAnonymous(rid, anonymous) /\ UNCHANGED <<chanVars, appVars, tabVars>>
    \/ \E rid \in R : ApiGet(rid) /\ UNCHANGED <<chanVars, appVars, tabVars>>
    \/ \E rid \in R : ExpressCreate(rid) /\ UNCHANGED <<chanVars, appVars, tabVars>>
    \/ \E rid \in R, name \in N, pid \in PIds : ExpressJoin(rid, name, pid) /\ UNCHANGED <<chanVars, appVars, tabVars>>
    \/ \E rid \in R, name \in N, symbol \in Y : ExpressSelect(rid, name, symbol) /\ UNCHANGED <<chanVars, appVars, tabVars>>
    \/ \E rid \in R : ExpressEnd(rid) /\ UNCHANGED <<chanVars, appVars, tabVars>>
    \/ \E rid \in R, anonymous \in BOOLEAN : ExpressToggleAnonymous(rid, anonymous) /\ UNCHANGED <<chanVars, appVars, tabVars>>
    \/ \E rid \in R : ExpressGet(rid) /\ UNCHANGED <<chanVars, appVars, tabVars>>
    \/ \E id \in R : LocalCreateRoom(id) /\ UNCHANGED <<chanVars, appVars, tabVars>>
    \/ \E roomId \in R, name \in N : LocalJoinRoom(roomId, name) /\ UNCHANGED <<chanVars, appVars, tabVars>>
    \/ LocalGetState /\ UNCHANGED <<chanVars, appVars, tabVars>>
    \/ \E symbol \in Y \cap Catalog : LocalSelect(symbol) /\ UNCHANGED <<chanVars, appVars, tabVars>>
    \/ LocalEndRound /\ UNCHANGED <<chanVars, appVars, tabVars>>
    \/ \E anonymous \in BOOLEAN : LocalSetAnonymous(anonymous) /\ UNCHANGED <<chanVars, appVars, tabVars>>

\* One room, every name and every symbol input.
Next == NextOn({"r1"}, NameInputs, SymbolInputs)
Spec == Init /\ [][Next]_vars

\* Two rooms, one name and one symbol.
NextRooms == NextOn(RoomIds, {Long41}, {"sun"})
SpecRooms == Init /\ [][NextRooms]_vars

-----------------------------------------------------------------------------
(* The Socket.IO handler with its clients: src/unnamed/part_000 and the      *)
(* 'state' listener of the client, src/unnamed/part_003.  Socket.IO hands    *)
(* the events emitted to a connection to that connection's listeners in the  *)
(* order of emission, so the events under way to a connection are a queue.   *)

\* io.to(roomId).emit('state', roomState(roomId)) of the handler that runs in
\* this step: the event is queued for every connection of the Socket.IO room.
\* `id` numbers the events in the order the server emitted them, and `joined`
\* is the room the receiving connection had joined last when it was emitted.
\* The answer of get_state is a callback and no 'state' event.  A closed
\* connection loses its queue.
Transmit ==
    LET emits == out' # NoOut /\ last'.op # "get"
        event(s) == [id |-> seq + 1, room |-> out'[1].room, state |-> out'[1].state,
                     joined |-> joinedRoomId'[s]]
    IN /\ emits => seq < MaxMsgs
       /\ seq' = IF emits THEN seq + 1 ELSE seq
       /\ inbox' = [s \in Sockets |->
                       IF conn'[s] # "open" THEN << >>
                       ELSE IF emits /\ s \in out'[1].to THEN Append(inbox[s], event(s))
                       ELSE inbox[s]]
       /\ UNCHANGED <<handled, tabVars>>

\* a listener that is handed any event under way, not the oldest one
DeliverAnyOrder(s) ==
    /\ variant = "socket" /\ conn[s] = "open"
    /\ \E i \in 1..Len(inbox[s]) :
          /\ handled' = [handled EXCEPT ![s] = << inbox[s][i] >>]
          /\ inbox' = [inbox EXCEPT ![s] = SubSeq(@, 1, i - 1) \o SubSeq(@, i + 1, Len(@))]
          /\ last' = Ev("deliver", inbox[s][i].room, Null, "none", FALSE)
          /\ out' = Out(inbox[s][i].room, Handlers, inbox[s][i].state)
    /\ UNCHANGED <<variant, now, rooms, sockVars, localVars, seq, tabVars>>

\* socket.on('state', state => stateHandlers.forEach(handler => handler(state)))
\* of the client of connection s, on the oldest event under way to it
Deliver(s) ==
    /\ variant = "socket" /\ conn[s] = "open"
    /\ inbox[s] # << >>
    /\ handled' = [handled EXCEPT ![s] = << Head(inbox[s]) >>]
    /\ inbox' = [inbox EXCEPT ![s] = Tail(@)]
    /\ last' = Ev("deliver", Head(inbox[s]).room, Null, "none", FALSE)
    /\ out' = Out(Head(inbox[s]).room, Handlers, Head(inbox[s]).state)
    /\ UNCHANGED <<variant, now, rooms, sockVars, localVars, seq, tabVars>>

NextPush ==
    \/ \E s \in Sockets, rid \in RoomIds : SockCreateRoom(s, rid) /\ Transmit /\ UNCHANGED appVars
    \/ \E s \in Sockets, rid \in RoomIds : SockJoinRoom(s, rid, Guest) /\ Transmit /\ UNCHANGED appVars
    \/ \E s \in Sockets : SockSelect(s, "sun") /\ Transmit /\ UNCHANGED appVars
    \/ \E s \in Sockets : SockEndRound(s) /\ Transmit /\ UNCHANGED appVars
    \/ \E s \in Sockets, anonymous \in BOOLEAN : SockToggleAnonymous(s, anonymous) /\ Transmit /\ UNCHANGED appVars
    \/ \E s \in Sockets : SockGetState(s) /\ Transmit /\ UNCHANGED appVars
    \/ \E s \in Sockets : SockDisconnect(s) /\ Transmit /\ UNCHANGED appVars
    \/ \E s \in Sockets : Deliver(s) /\ UNCHANGED appVars

\* The Socket.IO server and two client connections, two rooms.
InitPush == Init /\ variant = "socket"
SpecPush == InitPush /\ [][NextPush]_vars

-----------------------------------------------------------------------------
(* The local-store client in two browser tabs: src/src/realtime.ts.  Each    *)
(* tab has its own module variables; localStorage is shared by the tabs.     *)
(* What the handlers of a tab are called with is kept in tabShown.           *)

dayMs == 24 * 60 * 60 * 1000

\* the room createRoom builds
LocalNewRoom(id) ==
    [roomId |-> id, createdAt |-> now, ended |-> FALSE, anonymous |-> FALSE,
     symbols |-> <<"sun", "partly", "cloud", "rain", "storm">>,
     participants |-> << >>,
     summary |-> [sym \in {"sun", "partly", "cloud", "rain", "storm"} |-> 0]]

\* JSON.stringify({roomId: currentRoomId, userName: currentUserName})
Session(roomId, userName) == << [roomId |-> roomId, userName |-> userName] >>

\* notifyState(roomId) of tab t on its Map m: what its handlers are called
\* with, or what they were called with before when the Map has no such room
\* or no handler is registered
Notify(t, m, roomId) ==
    IF stateHandlers[t] > 0 /\ roomId # Null /\ roomId \in DOMAIN m
    THEN << m[roomId] >>
    ELSE tabShown[t]

\* a startPolling without the `if (pollInterval) return` line
startPollingAgain(t) == [set |-> TRUE, running |-> timers[t] + 1]

\* startPolling(): pollInterval and the number of running timers after it
startPolling(t) ==
    IF pollInterval[t]
    THEN [set |-> pollInterval[t], running |-> timers[t]]
    ELSE [set |-> TRUE, running |-> timers[t] + 1]

\* stopPolling(): clearInterval stops the one timer pollInterval names
stopPolling(t) ==
    IF pollInterval[t]
    THEN [set |-> FALSE, running |-> timers[t] - 1]
    ELSE [set |-> pollInterval[t], running |-> timers[t]]

\* the rooms of Map m the constructor's sweep keeps
Swept(m) == [r \in {x \in DOMAIN m : ~(now - m[x].createdAt > dayMs)} |-> m[r]]

\* The page loads in tab t: loadRooms(), loadSession() at module load, then
\* new RealtimeClient() (rooms older than a day are dropped, saveRooms()),
\* then the App registers its handler with onState, which is called at once
\* when the restored room is in the Map.
TabOpen(t) ==
    /\ variant = "local" /\ ~tabOpen[t]
    /\ LET kept == Swept(lsRooms)
           roomId == IF lsSession = << >> \/ ~Truthy(lsSession[1].roomId)
                     THEN Null ELSE lsSession[1].roomId
           userName == IF lsSession = << >> \/ lsSession[1].userName = Blank
                       THEN NullName ELSE lsSession[1].userName
       IN /\ tabOpen' = [tabOpen EXCEPT ![t] = TRUE]
          /\ tabRooms' = [tabRooms EXCEPT ![t] = kept]
          /\ lsRooms' = kept
          /\ tabRoomId' = [tabRoomId EXCEPT ![t] = roomId]
          /\ tabUserName' = [tabUserName EXCEPT ![t] = userName]
          /\ tabShown' = [tabShown EXCEPT ![t] =
                              IF roomId # Null /\ roomId \in DOMAIN kept
                              THEN << kept[roomId] >>
                              ELSE @]
          /\ pollInterval' = [pollInterval EXCEPT ![t] = startPolling(t).set]
          /\ timers' = [timers EXCEPT ![t] = startPolling(t).running]
          /\ stateHandlers' = [stateHandlers EXCEPT ![t] = @ + 1]
          /\ last' = Ev("open", roomId, Null, "void", FALSE)
    /\ UNCHANGED <<variant, now, rooms, out, sockVars, localVars, chanVars, appVars, lsSession, tabTick>>

TabCreateRoom(t, id) ==
    /\ variant = "local" /\ tabOpen[t]
    /\ tabRooms' = [tabRooms EXCEPT ![t] = Put(@, id, LocalNewRoom(id))]
    /\ tabRoomId' = [tabRoomId EXCEPT ![t] = id]
    /\ lsRooms' = tabRooms'[t]
    /\ lsSession' = Session(id, tabUserName[t])
    /\ tabShown' = [tabShown EXCEPT ![t] = Notify(t, tabRooms'[t], id)]
    /\ last' = Ev("create", id, Null, "ok", FALSE)
    /\ UNCHANGED <<variant, now, rooms, out, sockVars, localVars, chanVars, appVars, tabOpen, tabUserName,
                   tabTick, lifeVars>>

TabJoinRoom(t, roomId, name) ==
    /\ variant = "local" /\ tabOpen[t]
    /\ IF roomId \notin DOMAIN tabRooms[t]
       THEN /\ last' = Ev("join", roomId, Null, "false", FALSE)
            /\ UNCHANGED tabVars
       ELSE LET ps == tabRooms[t][roomId].participants
                existingIndex == FindIndex(ps, name)
            IN /\ tabRooms' = [tabRooms EXCEPT ![t][roomId].participants =
                                  IF existingIndex # 0
                                  THEN [ps EXCEPT ![existingIndex] =
                                           [name |-> name, symbol |-> ps[existingIndex].symbol]]
                                  ELSE Append(ps, [name |-> name, symbol |-> Null])]
               /\ tabRoomId' = [tabRoomId EXCEPT ![t] = roomId]
               /\ tabUserName' = [tabUserName EXCEPT ![t] = name]
               /\ lsRooms' = tabRooms'[t]
               /\ lsSession' = Session(roomId, name)
               /\ tabShown' = [tabShown EXCEPT ![t] = Notify(t, tabRooms'[t], roomId)]
               /\ last' = Ev("join", roomId, Null, "true", existingIndex # 0)
               /\ UNCHANGED <<tabOpen, tabTick, lifeVars>>
    /\ UNCHANGED <<variant, now, rooms, out, sockVars, localVars, chanVars, appVars>>

TabGetState(t) ==
    /\ variant = "local" /\ tabOpen[t]
    /\ last' = Ev("get", tabRoomId[t], Null,
                  IF tabRoomId[t] # Null /\ tabRoomId[t] \in DOMAIN tabRooms[t]
                  THEN "state" ELSE "null",
                  FALSE)
    /\ UNCHANGED <<variant, now, rooms, out, sockVars, localVars, chanVars, appVars, tabVars>>

TabSelect(t, symbol) ==
    /\ variant = "local" /\ tabOpen[t]
    /\ IF \/ tabRoomId[t] = Null \/ tabUserName[t] = NullName \/ tabUserName[t] = Blank
          \/ tabRoomId[t] \notin DOMAIN tabRooms[t]
       THEN /\ last' = Ev("select", tabRoomId[t], symbol, "void", FALSE)
            /\ UNCHANGED tabVars
       ELSE LET room == tabRooms[t][tabRoomId[t]]
                ps == room.participants
                participantIndex == FindIndex(ps, tabUserName[t])
                set == [room EXCEPT !.participants =
                           IF participantIndex # 0
                           THEN [ps EXCEPT ![participantIndex].symbol = symbol]
                           ELSE Append(ps, [name |-> tabUserName[t], symbol |-> symbol])]
            IN /\ last' = Ev("select", tabRoomId[t], symbol, "void", participantIndex # 0)
               /\ IF room.ended
                  THEN /\ UNCHANGED tabVars
                  ELSE /\ tabRooms' = [tabRooms EXCEPT ![t][tabRoomId[t]] =
                                          [set EXCEPT !.summary = updateSummary(set)]]
                       /\ lsRooms' = tabRooms'[t]
                       /\ tabShown' = [tabShown EXCEPT ![t] =
                                          Notify(t, tabRooms'[t], tabRoomId[t])]
                       /\ UNCHANGED <<lsSession, tabOpen, tabRoomId, tabUserName, tabTick, lifeVars>>
    /\ UNCHANGED <<variant, now, rooms, out, sockVars, localVars, chanVars, appVars>>

TabEndRound(t) ==
    /\ variant = "local" /\ tabOpen[t]
    /\ last' = Ev("end", tabRoomId[t], Null, "void", FALSE)
    /\ IF tabRoomId[t] # Null /\ tabRoomId[t] \in DOMAIN tabRooms[t]
       THEN /\ tabRooms' = [tabRooms EXCEPT ![t][tabRoomId[t]].ended = TRUE]
            /\ lsRooms' = tabRooms'[t]
            /\ tabShown' = [tabShown EXCEPT ![t] = Notify(t, tabRooms'[t], tabRoomId[t])]
            /\ UNCHANGED <<lsSession, tabOpen, tabRoomId, tabUserName, tabTick, lifeVars>>
       ELSE /\ UNCHANGED tabVars
    /\ UNCHANGED <<variant, now, rooms, out, sockVars, localVars, chanVars, appVars>>

TabSetAnonymous(t, anonymous) ==
    /\ variant = "local" /\ tabOpen[t]
    /\ last' = Ev("toggle", tabRoomId[t], Null, "void", FALSE)
    /\ IF tabRoomId[t] # Null /\ tabRoomId[t] \in DOMAIN tabRooms[t]
       THEN /\ tabRooms' = [tabRooms EXCEPT ![t][tabRoomId[t]].anonymous = anonymous]
            /\ lsRooms' = tabRooms'[t]
            /\ tabShown' = [tabShown EXCEPT ![t] = Notify(t, tabRooms'[t], tabRoomId[t])]
            /\ UNCHANGED <<lsSession, tabOpen, tabRoomId, tabUserName, tabTick, lifeVars>>
       ELSE /\ UNCHANGED tabVars
    /\ UNCHANGED <<variant, now, rooms, out, sockVars, localVars, chanVars, appVars>>

\* one tick of the interval startPolling set: the handlers of tab t are called
\* with the room of currentRoomId in the tab's own Map
TabPoll(t) ==
    /\ variant = "local" /\ tabOpen[t]
    /\ timers[t] > 0
    /\ tabRoomId[t] # Null /\ tabRoomId[t] \in DOMAIN tabRooms[t]
    /\ tabShown' = [tabShown EXCEPT ![t] = Notify(t, tabRooms[t], tabRoomId[t])]
    /\ tabTick' = [tabTick EXCEPT ![t] = ~@]
    /\ UNCHANGED <<variant, now, rooms, last, out, sockVars, localVars, chanVars, appVars,
                   lsRooms, lsSession, tabOpen, tabRooms, tabRoomId, tabUserName, lifeVars>>

\* createRoom() draws its id with Math.random: an id no tab and no stored
\* Map holds yet
FreshId(id) == id \notin DOMAIN lsRooms /\ \A t \in Tabs : id \notin DOMAIN tabRooms[t]

\* the name the user of each tab types
UserOf == [t \in Tabs |-> IF t = "t1" THEN Guest ELSE Long41]

\* the operations of the client that write localStorage, in every tab, on
\* room ids of R
WritesOn(R) ==
    \/ \E t \in Tabs : TabOpen(t)
    \/ \E t \in Tabs, id \in R : FreshId(id) /\ TabCreateRoom(t, id)
    \/ \E t \in Tabs, roomId \in R : TabJoinRoom(t, roomId, UserOf[t])
    \/ \E t \in Tabs : TabSelect(t, "sun")
    \/ \E t \in Tabs : TabEndRound(t)
    \/ \E t \in Tabs : TabSetAnonymous(t, TRUE)

\* the operations that read the tab's Map
Reads ==
    \/ \E t \in Tabs : TabGetState(t)
    \/ \E t \in Tabs : TabPoll(t)

InitTabs == Init /\ variant = "local"

\* Two tabs, one room.
NextTabs == WritesOn({"r1"}) \/ Reads
SpecTabs == InitTabs /\ [][NextTabs]_vars

\* Two tabs, one room; the interval of an open tab keeps ticking.
SpecTabsFair == SpecTabs /\ \A t \in Tabs : WF_vars(TabPoll(t))

\* Two tabs, two rooms: page load, createRoom, joinRoom, endRound.
NextTabRooms ==
    \/ \E t \in Tabs : TabOpen(t)
    \/ \E t \in Tabs, id \in RoomIds : FreshId(id) /\ TabCreateRoom(t, id)
    \/ \E t \in Tabs, roomId \in RoomIds : TabJoinRoom(t, roomId, UserOf[t])
    \/ \E t \in Tabs : TabEndRound(t)
SpecTabRooms == InitTabs /\ [][NextTabRooms]_vars

-----------------------------------------------------------------------------
(* The life of RealtimeClient instances in one page of the local-store      *)
(* client: src/src/realtime.ts.  The poll timer, the handlers and the Map    *)
(* are module variables, shared by every instance the page constructs.      *)

MaxTimers == 2        \* no client is constructed while this many timers run
MaxHandlers == 2      \* no handler is registered beyond this many
MaxDays == 1          \* the clock stops jumping days here

\* a day goes by
DayPasses ==
    /\ now < MaxDays * dayMs
    /\ now' = now + dayMs
    /\ last' = Ev("tick", Null, Null, "none", FALSE)
    /\ out' = NoOut
    /\ UNCHANGED <<variant, rooms, sockVars, localVars>>

\* new RealtimeClient() in the loaded page of tab t: startPolling(), the sweep
\* of the rooms older than a day, saveRooms()
TabConstruct(t) ==
    /\ variant = "local" /\ tabOpen[t]
    /\ timers[t] < MaxTimers
    /\ pollInterval' = [pollInterval EXCEPT ![t] = startPolling(t).set]
    /\ timers' = [timers EXCEPT ![t] = startPolling(t).running]
    /\ tabRooms' = [tabRooms EXCEPT ![t] = Swept(@)]
    /\ lsRooms' = tabRooms'[t]
    /\ last' = Ev("construct", tabRoomId[t], Null, "void", FALSE)
    /\ UNCHANGED <<variant, now, rooms, out, sockVars, localVars, chanVars, appVars, lsSession,
                   tabOpen, tabRoomId, tabUserName, tabShown, tabTick, stateHandlers>>

\* onState(handler): the handler is registered and called at once with the
\* current room, if the Map has it
TabOnState(t) ==
    /\ variant = "local" /\ tabOpen[t]
    /\ stateHandlers[t] < MaxHandlers
    /\ stateHandlers' = [stateHandlers EXCEPT ![t] = @ + 1]
    /\ tabShown' = [tabShown EXCEPT ![t] =
                       IF tabRoomId[t] # Null /\ tabRoomId[t] \in DOMAIN tabRooms[t]
                       THEN << tabRooms[t][tabRoomId[t]] >>
                       ELSE @]
    /\ last' = Ev("onState", tabRoomId[t], Null, "void", FALSE)
    /\ UNCHANGED <<variant, now, rooms, out, sockVars, localVars, chanVars, appVars, lsRooms,
                   lsSession, tabOpen, tabRooms, tabRoomId, tabUserName, tabTick,
                   pollInterval, timers>>

\* destroy(): stopPolling(); stateHandlers = []
TabDestroy(t) ==
    /\ variant = "local" /\ tabOpen[t]
    /\ pollInterval' = [pollInterval EXCEPT ![t] = stopPolling(t).set]
    /\ timers' = [timers EXCEPT ![t] = stopPolling(t).running]
    /\ stateHandlers' = [stateHandlers EXCEPT ![t] = 0]
    /\ last' = Ev("destroy", tabRoomId[t], Null, "void", FALSE)
    /\ UNCHANGED <<variant, now, rooms, out, sockVars, localVars, chanVars, appVars, lsRooms,
                   lsSession, tabOpen, tabRooms, tabRoomId, tabUserName, tabShown, tabTick>>

\* the page whose clients are followed
LifeTabs == {"t1"}

\* the read and mutation operations of the page's clients, on the rooms R
LifeOps(R) ==
    \/ \E t \in LifeTabs, id \in R : FreshId(id) /\ TabCreateRoom(t, id)
    \/ \E t \in LifeTabs, roomId \in R : TabJoinRoom(t, roomId, UserOf[t])
    \/ \E t \in LifeTabs : TabGetState(t)
    \/ \E t \in LifeTabs : TabSelect(t, "sun")
    \/ \E t \in LifeTabs : TabEndRound(t)
    \/ \E t \in LifeTabs : TabSetAnonymous(t, TRUE)

\* One page, one room: clients are constructed and destroyed, handlers are
\* registered, the timer ticks.
NextLife ==
    \/ \E t \in LifeTabs : TabOpen(t)
    \/ \E t \in LifeTabs : TabConstruct(t)
    \/ \E t \in LifeTabs : TabOnState(t)
    \/ \E t \in LifeTabs : TabDestroy(t)
    \/ \E t \in LifeTabs : TabPoll(t)
    \/ LifeOps({"r1"})
SpecLife == InitTabs /\ [][NextLife]_vars

\* One page, two rooms, a clock that runs past a day: clients are constructed
\* and handlers registered between the operations.
NextSweep ==
    \/ Tick /\ UNCHANGED <<chanVars, appVars, tabVars>>
    \/ DayPasses /\ UNCHANGED <<chanVars, appVars, tabVars>>
    \/ \E t \in LifeTabs : TabOpen(t)
    \/ \E t \in LifeTabs : TabConstruct(t)
    \/ \E t \in LifeTabs : TabOnState(t)
    \/ LifeOps(RoomIds)
SpecSweep == InitTabs /\ [][NextSweep]_vars

-----------------------------------------------------------------------------
(* The App on the pages of two browsers, each with the Socket.IO client of   *)
(* src/unnamed/part_003, against the Socket.IO handler: src/unnamed/part_004 *)
(* calls the client, the client emits to the server and takes the            *)
(* acknowledgement, and the 'state' listener hands every event to the App's  *)
(* stateHandler.  An emit, the server's handler and the acknowledgement are  *)
(* one step.                                                                 *)

\* the alias typed into the App of each page
AliasOf == [s \in Sockets |-> IF s = "s1" THEN Guest ELSE X40]

\* saveSession: the roomId half of the stored session; the userName half only
\* restores the alias, which is fixed per page here
SavedRoom(roomId) == << [roomId |-> roomId] >>

\* loadSession: currentRoomId = roomId || null, null without a stored session
RestoredRoom(session) ==
    IF session # << >> /\ Truthy(session[1].roomId) THEN session[1].roomId ELSE Null

\* the room state App.pick puts in `state` before it calls select
Optimistic(state, alias, symbol) ==
    LET participantIndex == FindIndex(state.participants, alias)
        participants ==
            IF participantIndex # 0
            THEN [state.participants EXCEPT ![participantIndex].symbol = symbol]
            ELSE Append(state.participants, [name |-> alias, symbol |-> symbol])
    IN [state EXCEPT
           !.participants = participants,
           !.summary = CountAll([sym \in {"sun", "partly", "cloud", "rain", "storm"} |-> 0],
                                participants)]

\* handleJoin: joinRoom(roomId, alias), acknowledged with ok, then
\* setState(await getState()); get_state answers the state the join left
AppJoin(s, roomId) ==
    /\ SockJoinRoom(s, roomId, AliasOf[s]) /\ Transmit
    /\ cliRoomId' = [cliRoomId EXCEPT ![s] = roomId]
    /\ cliSession' = [cliSession EXCEPT ![s] = SavedRoom(roomId)]
    /\ appState' = [appState EXCEPT ![s] = << roomState(rooms', roomId) >>]

\* handleCreateRoom: createRoom() with a new random id, then what handleJoin
\* does with that id
AppCreateRoom(s, id) ==
    /\ id \notin DOMAIN rooms
    /\ AppJoin(s, id)

\* pick(symbol): the optimistic update of `state`, then client.select(symbol),
\* which emits 'select' unless the client has no currentRoomId
AppPick(s, symbol) ==
    /\ variant = "socket" /\ conn[s] = "open"
    /\ appState[s] # << >>
    /\ appState' = [appState EXCEPT ![s] = << Optimistic(appState[s][1], AliasOf[s], symbol) >>]
    /\ IF cliRoomId[s] = Null
       THEN UNCHANGED <<variant, now, rooms, sockVars, localVars, last, out, chanVars, tabVars>>
       ELSE SockSelect(s, symbol) /\ Transmit
    /\ UNCHANGED <<cliRoomId, cliSession>>

\* endRound(): client.endRound() emits 'end_round' if there is a currentRoomId
AppEndRound(s) ==
    /\ cliRoomId[s] # Null
    /\ SockEndRound(s) /\ Transmit
    /\ UNCHANGED appVars

\* toggleAnonymous(): client.setAnonymous(!state.anonymous)
AppToggleAnonymous(s) ==
    /\ appState[s] # << >> /\ cliRoomId[s] # Null
    /\ SockToggleAnonymous(s, ~appState[s][1].anonymous) /\ Transmit
    /\ UNCHANGED appVars

\* the client's 'state' listener calls the App's stateHandler: setState(s)
AppDeliver(s) ==
    /\ Deliver(s)
    /\ appState' = [appState EXCEPT ![s] = << Head(inbox[s]).state >>]
    /\ UNCHANGED <<cliRoomId, cliSession>>

\* the connection of page s is lost, or the page is closed: the server runs
\* its 'disconnect' handler
AppDisconnect(s) ==
    /\ SockDisconnect(s) /\ Transmit
    /\ UNCHANGED appVars

\* the server's 'connection' handler for a new connection: a new closure with
\* joinedRoomId = null
Connection(s) ==
    /\ variant = "socket" /\ conn[s] = "closed"
    /\ conn' = [conn EXCEPT ![s] = "open"]
    /\ joinedRoomId' = [joinedRoomId EXCEPT ![s] = Null]
    /\ last' = Ev("connection", Null, Null, "none", FALSE)
    /\ out' = NoOut
    /\ UNCHANGED <<variant, now, rooms, sioRooms, localVars, seq, inbox, tabVars>>

\* socket.io-client connects again by itself after a lost connection; the
\* page, and with it the client module and the App, stay as they are
Reconnect(s) ==
    /\ Connection(s)
    /\ UNCHANGED <<handled, appVars>>

\* the page is loaded again: the module runs loadSession(), the App starts
\* with state = null and registers its handler; onState asks get_state, which
\* answers null on a connection that has joined nothing
PageLoad(s) ==
    /\ Connection(s)
    /\ cliRoomId' = [cliRoomId EXCEPT ![s] = RestoredRoom(cliSession[s])]
    /\ appState' = [appState EXCEPT ![s] = << >>]
    /\ handled' = [handled EXCEPT ![s] = << >>]
    /\ UNCHANGED cliSession

NextApp ==
    \/ \E s \in Sockets : AppCreateRoom(s, "r1")
    \/ \E s \in Sockets : AppJoin(s, "r1")
    \/ \E s \in Sockets : AppPick(s, "sun")
    \/ \E s \in Sockets : AppEndRound(s)
    \/ \E s \in Sockets : AppToggleAnonymous(s)
    \/ \E s \in Sockets : AppDeliver(s)
    \/ \E s \in Sockets : AppDisconnect(s)
    \/ \E s \in Sockets : Reconnect(s)
    \/ \E s \in Sockets : PageLoad(s)

\* The Socket.IO server, two pages with client and App, one room.
InitApp == Init /\ variant = "socket"
SpecApp == InitApp /\ [][NextApp]_vars

-----------------------------------------------------------------------------
(* Properties *)

Servers == {"socket", "api", "express"}
Answered == {"ok", "200", "true"}

RECURSIVE SumOver(_, _)
SumOver(f, keys) ==
    IF keys = {} THEN 0
    ELSE LET k == CHOOSE x \in keys : TRUE IN f[k] + SumOver(f, keys \ {k})
SumValues(f) == SumOver(f, DOMAIN f)

Selected(ps) == {i \in 1..Len(ps) : ps[i].symbol # Null}

\* C1: in each server variant the values of a snapshot's summary add up to
\* the number of the snapshot's participants whose symbol is not null, for the
\* snapshot of every room of the store and for every snapshot sent out.
SummaryCountsSelections(st) ==
    SumValues(st.summary) = Cardinality(Selected(st.participants))
C1_SummaryCountsSelections ==
    variant \in Servers =>
        /\ \A r \in DOMAIN rooms : SummaryCountsSelections(roomState(rooms, r))
        /\ \A i \in 1..Len(out) : SummaryCountsSelections(out[i].state)

C3_SymbolsInCatalog ==
    variant \in Servers =>
        \A r \in DOMAIN rooms :
            \A i \in 1..Len(rooms[r].participants) :
                rooms[r].participants[i].symbol \in Catalog \cup {Null}

\* C4: a room that enters the store by a handler other than end round starts
\* with ended = FALSE, and a room that is ended stays in the store and stays
\* ended, whatever handler runs next.
C4_EndedNeverReverts ==
    [][/\ last'.op # "end" => \A r \in DOMAIN rooms' \ DOMAIN rooms : ~rooms'[r].ended
       /\ \A r \in DOMAIN rooms :
             rooms[r].ended => r \in DOMAIN rooms' /\ rooms'[r].ended]_vars

\* C5: a create on a room id that is already in the store leaves that room's
\* participants, ended, anonymous and createdAt as they were.
C5_CreateExistingKeepsRoom ==
    [][(last'.op = "create" /\ last'.rid \in DOMAIN rooms) =>
         LET old == rooms[last'.rid]
             new == rooms'[last'.rid]
         IN /\ new.participants = old.participants
            /\ new.ended = old.ended
            /\ new.anonymous = old.anonymous
            /\ new.createdAt = old.createdAt]_vars

\* C6: a join by an identity that is already a participant of the room leaves
\* the number of participants of the room as it was.
C6_RejoinDoesNotDuplicate ==
    [][(last'.op = "join" /\ last'.hit) =>
         Len(rooms'[last'.rid].participants) = Len(rooms[last'.rid].participants)]_vars

\* C7: a join by an identity that is already a participant of the room keeps
\* the symbol every participant had.
C7_RejoinKeepsSymbol ==
    [][(last'.op = "join" /\ last'.hit) =>
         \A i \in 1..Len(rooms[last'.rid].participants) :
             rooms'[last'.rid].participants[i].symbol
                 = rooms[last'.rid].participants[i].symbol]_vars

\* C8: every join is answered with success and leaves the room in the store
\* with at least one participant.
C8_JoinAlwaysSucceeds ==
    last.op = "join" =>
        /\ last.res \in Answered
        /\ last.rid \in DOMAIN rooms
        /\ rooms[last.rid].participants # << >>

\* C9: every stored participant name has at most 40 characters and is not
\* blank, in every variant.
C9_StoredNamesBounded ==
    \A r \in DOMAIN rooms :
        \A i \in 1..Len(rooms[r].participants) :
            /\ Len(rooms[r].participants[i].name) <= NameMax
            /\ rooms[r].participants[i].name # Blank

\* C10: once a connection has disconnected, no room holds a participant keyed
\* by that connection.
C10_DisconnectRemovesEverywhere ==
    variant = "socket" =>
        \A s \in Sockets :
            conn[s] = "closed" =>
                \A r \in DOMAIN rooms : ~MapHas(rooms[r].participants, s)

\* C11: a state read of a room id that is not in the store (a room no handler
\* has referenced) is answered with null / not found, not with a snapshot.
C11_GetUnknownRoomIsNull ==
    [][(last'.op = "get" /\ last'.rid \notin DOMAIN rooms) =>
         (last'.res = "null" /\ out' = NoOut)]_vars

\* C12: a state read leaves the room store as it was: the same room ids and
\* the same fields of every room, for an id in the store and for one that is
\* not.
C12_GetLeavesStoreUnchanged ==
    [][last'.op = "get" => rooms' = rooms]_vars

\* C13: in the two push variants (the Socket.IO handler and the local-store
\* client) every accepted join, select, end round, toggle anonymous and
\* disconnect, and every one of them that changed a room, sends out in the
\* same step the state of that room recomputed after the change, to every
\* party of the room: every open connection that is a participant of the
\* room or has it as its joined room, or the registered state handlers.
PushVariants == {"socket", "local"}
PushOps == {"join", "select", "end", "toggle", "disconnect"}

\* the step changed room r, or put it in the store
Mutated(r) ==
    /\ r \in DOMAIN rooms'
    /\ r \notin DOMAIN rooms \/ rooms'[r] # rooms[r]

\* the step ran a mutation on room r that the handler accepted
Accepted(r) ==
    /\ last'.op \in PushOps
    /\ last'.rid = r
    /\ r \in DOMAIN rooms'
    /\ last'.op = "join" => last'.res \in Answered
    /\ last'.op = "select" =>
           /\ r \in DOMAIN rooms
           /\ ~rooms[r].ended
           /\ last'.sym \in Catalog
           /\ variant = "socket" => last'.hit
           /\ variant = "local" => currentUserName \notin {NullName, Blank}

\* the parties of room r after the step
PartiesOf(r) ==
    IF variant = "socket"
    THEN {s \in Sockets : /\ conn'[s] = "open"
                          /\ \/ joinedRoomId'[s] = r
                             \/ MapHas(rooms'[r].participants, s)}
    ELSE Handlers

\* the state of room r after the step, its summary counted again
Recomputed(r) ==
    IF variant = "socket"
    THEN roomState(rooms', r)
    ELSE [rooms'[r] EXCEPT !.summary = updateSummary(rooms'[r])]

Notified(r) ==
    \E i \in 1..Len(out') :
        /\ out'[i].room = r
        /\ PartiesOf(r) \subseteq out'[i].to
        /\ out'[i].state = Recomputed(r)

C13_MutationNotifiesParties ==
    [][\A r \in RoomIds :
           (/\ variant \in PushVariants
            /\ Accepted(r) \/ (last'.op \in PushOps /\ Mutated(r))) => Notified(r)]_vars

\* an accepted select in the Socket.IO handler was sent to two connections
C13_Witness ==
    /\ variant = "socket"
    /\ last.op = "select" /\ last.hit /\ last.sym \in Catalog
    /\ Len(out) = 1
    /\ out[1].to = Sockets
    /\ \E i \in 1..Len(out[1].state.participants) :
           out[1].state.participants[i].symbol = last.sym

C15_HandlerGetsOwnRoomOnly ==
    \A s \in Sockets :
        handled[s] # << >> => handled[s][1].room = handled[s][1].joined

\* the names of the participants of room r in the Map m
Names(m, r) == {m[r].participants[i].name : i \in 1..Len(m[r].participants)}

\* C16: with two tabs on one localStorage, a join that succeeds keeps in the
\* persisted room every participant the persisted room held before it, and
\* the persisted room holds the joining name: the join of one tab does not
\* undo the join of the other.
C16_JoinKeepsPersistedParticipants ==
    [][(last'.op = "join" /\ last'.res = "true" /\ last'.rid \in DOMAIN lsRooms) =>
         /\ last'.rid \in DOMAIN lsRooms'
         /\ Names(lsRooms, last'.rid) \subseteq Names(lsRooms', last'.rid)]_vars

\* tab u is open and its interval calls its handlers with room r
Polling(u, r) == tabOpen[u] /\ tabRoomId[u] = r /\ r \in DOMAIN tabRooms[u]

\* the persisted room r holds participant n
Persisted(r, n) == r \in DOMAIN lsRooms /\ n \in Names(lsRooms, r)

\* the handlers of tab u were called last with a state of room r that holds
\* participant n
Shows(u, r, n) ==
    /\ tabShown[u] # << >>
    /\ tabShown[u][1].roomId = r
    /\ \E i \in 1..Len(tabShown[u][1].participants) : tabShown[u][1].participants[i].name = n

\* C17: when a tab polls a room and a join to that room is persisted, the
\* handlers of the tab are eventually called with a state that holds the
\* joined participant (or the tab has left the room, or the participant is
\* no longer persisted), the interval of every open tab ticking on.
C17_PollShowsPersistedJoin ==
    \A u \in Tabs, n \in {Guest, Long41} :
        (Polling(u, "r1") /\ Persisted("r1", n))
            ~> (Shows(u, "r1", n) \/ ~Polling(u, "r1") \/ ~Persisted("r1", n))

\* C18: a createRoom, joinRoom, select, endRound or setAnonymous leaves every
\* persisted room other than the one it is addressed to in the store, with
\* every field as it was.
C18_OtherRoomsUntouched ==
    [][last'.op \in {"create", "join", "select", "end", "toggle"} =>
         \A r \in DOMAIN lsRooms :
             r # last'.rid => (r \in DOMAIN lsRooms' /\ lsRooms'[r] = lsRooms[r])]_vars

\* C19: a select by an identity that does not resolve to a participant of the
\* room leaves the participants of every room as they were: none is added
\* and none is changed.
C19_SelectByUnknownChangesNothing ==
    [][(last'.op = "select" /\ ~last'.hit) =>
         \A r \in DOMAIN rooms :
             r \in DOMAIN rooms' /\ rooms'[r].participants = rooms[r].participants]_vars

\* what a handler answers when it reports an error to the caller
ErrorAnswers == {"400"}

\* C20: in the three servers a select on a room whose round has ended is
\* answered without an error: no error status and no error body.
C20_SelectAfterEndIsSilent ==
    [][(/\ variant \in Servers
        /\ last'.op = "select"
        /\ last'.rid \in DOMAIN rooms
        /\ rooms[last'.rid].ended) => last'.res \notin ErrorAnswers]_vars

\* the number of entries of ps that hold symbol k
Holding(ps, k) == Cardinality({i \in 1..Len(ps) : ps[i].symbol = k})

\* C21: in the local-store client the summary stored with a room counts, for
\* each symbol of the catalog, exactly the participants of that room holding
\* it, after any sequence of createRoom, joinRoom, select, endRound and
\* setAnonymous.
C21_StoredSummaryIsRecount ==
    variant = "local" =>
        \A r \in DOMAIN rooms :
            /\ DOMAIN rooms[r].summary = Catalog
            /\ \A k \in Catalog :
                  rooms[r].summary[k] = Holding(rooms[r].participants, k)

\* a stored room with two participants, one of whom has selected, after the
\* round was ended
C21_Witness ==
    /\ variant = "local"
    /\ \E r \in DOMAIN rooms :
          /\ Len(rooms[r].participants) >= 2
          /\ \E k \in Catalog : rooms[r].summary[k] >= 1
          /\ rooms[r].ended


\* C22: ending the round of a room whose round is ended already leaves the
\* room exactly as the first end left it (ended, participants, anonymous and
\* createdAt included), in every variant: endRound twice is endRound once.
C22_EndRoundTwiceIsOnce ==
    [][\A r \in RoomIds :
          (/\ last'.op = "end"
           /\ last'.rid = r
           /\ r \in DOMAIN rooms
           /\ rooms[r].ended)
          => (r \in DOMAIN rooms' /\ rooms'[r] = rooms[r])]_vars

\* an end round has run on a room that is ended, holds a selection and is
\* anonymous: the state one call and two calls both lead to
C22_Witness ==
    /\ last.op = "end"
    /\ last.rid \in DOMAIN rooms
    /\ rooms[last.rid].ended
    /\ rooms[last.rid].anonymous
    /\ \E i \in 1..Len(rooms[last.rid].participants) :
          rooms[last.rid].participants[i].symbol \in Catalog


\* the fields of a room that a change of the anonymous flag must not touch
SameButAnonymous(a, b) ==
    /\ a.participants = b.participants
    /\ a.ended = b.ended
    /\ a.createdAt = b.createdAt
    /\ a.symbols = b.symbols

\* C23: a toggle_anonymous / setAnonymous with the value b that addresses a
\* stored room sets that room's anonymous flag to b and leaves its
\* participants, ended and createdAt as they were, whether or not the round
\* is ended; a toggle that addresses no stored room of the Socket.IO server
\* or the local client changes nothing.
C23_SetAnonymousOnlySetsFlag ==
    [][\A b \in BOOLEAN :
          /\ \A s \in Sockets :
                SockToggleAnonymous(s, b) =>
                    IF joinedRoomId[s] \in DOMAIN rooms
                    THEN /\ rooms'[joinedRoomId[s]].anonymous = b
                         /\ SameButAnonymous(rooms'[joinedRoomId[s]], rooms[joinedRoomId[s]])
                    ELSE joinedRoomId[s] = Null => rooms' = rooms
          /\ \A r \in RoomIds :
                (ApiToggleAnonymous(r, b) \/ ExpressToggleAnonymous(r, b)) =>
                    /\ rooms'[r].anonymous = b
                    /\ r \in DOMAIN rooms => SameButAnonymous(rooms'[r], rooms[r])
          /\ LocalSetAnonymous(b) =>
                IF currentRoomId \in DOMAIN rooms
                THEN /\ rooms'[currentRoomId].anonymous = b
                     /\ SameButAnonymous(rooms'[currentRoomId], rooms[currentRoomId])
                ELSE rooms' = rooms]_vars

\* a toggle has set the flag in a room that is ended and holds a selection
C23_Witness ==
    /\ last.op = "toggle"
    /\ last.rid \in DOMAIN rooms
    /\ rooms[last.rid].ended
    /\ rooms[last.rid].anonymous
    /\ out # NoOut /\ out[1].state.anonymous
    /\ \E i \in 1..Len(rooms[last.rid].participants) :
          rooms[last.rid].participants[i].symbol \in Catalog


\* the defaults of a room nothing has happened to
Fresh(room) ==
    /\ room.participants = << >>
    /\ room.symbols = <<"sun", "partly", "cloud", "rain", "storm">>
    /\ room.ended = FALSE
    /\ room.anonymous = FALSE

\* C24: a room created for an id the store did not hold starts with no
\* participants, the fixed catalog as symbols, ended = false and
\* anonymous = false, whichever operation references the id first: the room
\* the step leaves behind is such a room with only that operation's own
\* change made to it (the joiner added by a join, ended set by an end, the
\* flag set by a toggle, nothing else by a create, a get or a select).
C24_NewRoomHasDefaults ==
    [][\A r \in RoomIds :
          (r \notin DOMAIN rooms /\ r \in DOMAIN rooms') =>
              LET room == rooms'[r]
              IN /\ last'.rid = r
                 /\ room.createdAt = now
                 /\ CASE last'.op = "join" ->
                            /\ Fresh([room EXCEPT !.participants = << >>])
                            /\ Len(room.participants) = 1
                            /\ room.participants[1].symbol = Null
                      [] last'.op = "end" ->
                            Fresh([room EXCEPT !.ended = FALSE]) /\ room.ended
                      [] last'.op = "toggle" ->
                            Fresh([room EXCEPT !.anonymous = FALSE])
                      [] OTHER ->
                            last'.op \in {"create", "get", "select"} /\ Fresh(room)]_vars

\* the only room of a REST store dates from the last tick of the clock and has
\* no participants, and the store has handled a select, an end or a toggle last
C24_Witness ==
    /\ variant \in {"api", "express"}
    /\ last.op \in {"select", "end", "toggle"}
    /\ DOMAIN rooms = {last.rid}
    /\ rooms[last.rid].createdAt = MaxTime
    /\ rooms[last.rid].participants = << >>


\* the snapshot of stored room r: roomState(r) of a server, the stored room
\* of the local client
Snapshot(r) == IF variant \in Servers THEN roomState(rooms, r) ELSE rooms[r]

CatalogShaped(st) ==
    /\ st.symbols = <<"sun", "partly", "cloud", "rain", "storm">>
    /\ DOMAIN st.summary = {"sun", "partly", "cloud", "rain", "storm"}

\* C25: in the snapshot of every stored room and in every snapshot sent out,
\* symbols is the ordered list sun, partly, cloud, rain, storm and the keys of
\* summary are exactly those five symbols, in every variant.
C25_SnapshotsAreCatalogShaped ==
    /\ \A r \in DOMAIN rooms : CatalogShaped(Snapshot(r))
    /\ \A i \in 1..Len(out) : CatalogShaped(out[i].state)


\* participants qs are participants ps with the symbol y in the entries of the
\* index set mine and no other change
OnlySet(ps, qs, mine, y) ==
    /\ Len(qs) = Len(ps)
    /\ \A i \in 1..Len(ps) :
          IF i \in mine
          THEN qs[i] = [ps[i] EXCEPT !.symbol = y]
          ELSE qs[i] = ps[i]

\* C26: in a room whose round is not ended, a select with a catalog symbol y
\* by a joined participant sets that participant's symbol to y and changes no
\* other participant. The participant is the entry of the connection on the
\* Socket.IO server and the entry of the current user name, if that is not
\* empty, in the local client; a REST select carries only a name, so there it
\* must serve every joined participant of that name who may have sent it.
C26_SelectSetsOwnSymbolOnly ==
    [][\A y \in Catalog :
          /\ \A s \in Sockets :
                (/\ SockSelect(s, y)
                 /\ joinedRoomId[s] \in DOMAIN rooms
                 /\ ~rooms[joinedRoomId[s]].ended
                 /\ MapHas(rooms[joinedRoomId[s]].participants, s))
                => LET ps == rooms[joinedRoomId[s]].participants
                   IN OnlySet(ps, rooms'[joinedRoomId[s]].participants, {MapIndex(ps, s)}, y)
          /\ \A r \in RoomIds, n \in NameInputs \cup {X40} :
                (/\ ApiSelect(r, n, y) \/ ExpressSelect(r, n, y)
                 /\ r \in DOMAIN rooms
                 /\ ~rooms[r].ended)
                => LET ps == rooms[r].participants
                   IN \A me \in {i \in 1..Len(ps) : ps[i].name = n} :
                         OnlySet(ps, rooms'[r].participants, {me}, y)
          /\ (/\ LocalSelect(y)
              /\ currentRoomId \in DOMAIN rooms
              /\ ~rooms[currentRoomId].ended
              /\ currentUserName # Blank
              /\ FindIndex(rooms[currentRoomId].participants, currentUserName) # 0)
             => LET ps == rooms[currentRoomId].participants
                IN OnlySet(ps, rooms'[currentRoomId].participants,
                           {FindIndex(ps, currentUserName)}, y)]_vars


\* C27: on the Socket.IO server, for a select of a catalog symbol y by the
\* participant of connection s and an end_round by another connection e of
\* the same room, in either order: the end_round sets ended and leaves every
\* participant's symbol as it finds it, and the select sets the symbol of s
\* to y if it comes first (the round not yet ended) and changes nothing if it
\* comes second. So the room ends up ended, with the symbol of s equal to y
\* exactly if the server handled the select before the end_round.
C27_SelectVersusEndRound ==
    [][\A s \in Sockets, e \in Sockets, y \in Catalog :
          (/\ e # s
           /\ joinedRoomId[s] \in DOMAIN rooms
           /\ joinedRoomId[e] = joinedRoomId[s]
           /\ MapHas(rooms[joinedRoomId[s]].participants, s))
          => LET r == joinedRoomId[s]
                 ps == rooms[r].participants
                 qs == rooms'[r].participants
             IN /\ SockEndRound(e) => (rooms'[r].ended /\ qs = ps)
                /\ SockSelect(s, y) =>
                      /\ rooms'[r].ended = rooms[r].ended
                      /\ IF rooms[r].ended
                         THEN qs = ps
                         ELSE qs[MapIndex(ps, s)].symbol = y]_vars

\* both orders have happened in one room of two participants: each selected
\* "sun" before the round was ended, and a later select of "rain" by one of
\* them, after the end, was handled last
C27_Witness ==
    /\ variant = "socket"
    /\ last.op = "select" /\ last.sym = "rain" /\ last.hit
    /\ last.rid \in DOMAIN rooms
    /\ rooms[last.rid].ended
    /\ Len(rooms[last.rid].participants) = 2
    /\ \A i \in 1..2 : rooms[last.rid].participants[i].symbol = "sun"


\* C30: in the local-store client no room ever holds two participant entries
\* of one name, after any sequence of joinRoom and select (and createRoom,
\* endRound, setAnonymous) by one client instance.
C30_LocalNamesAreUnique ==
    variant = "local" =>
        \A r \in DOMAIN rooms :
            \A i, j \in 1..Len(rooms[r].participants) :
                rooms[r].participants[i].name = rooms[r].participants[j].name => i = j

\* the client has joined again under a name that has an entry already, in a
\* room of two entries
C30_Witness ==
    /\ variant = "local"
    /\ last.op = "join" /\ last.hit
    /\ last.rid \in DOMAIN rooms
    /\ Len(rooms[last.rid].participants) = 2


\* C28: the App's displayed room state converges to the server's: when the
\* server has just rejected a select on a room (it changed and emitted
\* nothing) and no 'state' event is under way to any connection, the state
\* held by the App of every open connection joined to that room, if it holds
\* one, is the server's state of the room.
C28_AppConvergesAfterRejectedSelect ==
    (/\ last.op = "select"
     /\ out = NoOut
     /\ last.rid \in DOMAIN rooms
     /\ \A u \in Sockets : inbox[u] = << >>)
    => \A s \in Sockets :
          (conn[s] = "open" /\ joinedRoomId[s] = last.rid /\ appState[s] # << >>)
          => appState[s][1] = roomState(rooms, last.rid)

\* C29: whenever the Socket.IO client of an open connection holds a non-null
\* currentRoomId, the server has that connection joined to that room, also
\* after a reconnect or a reload of the page.
C29_ClientRoomIsJoinedRoom ==
    \A s \in Sockets :
        (conn[s] = "open" /\ cliRoomId[s] # Null) => joinedRoomId[s] = cliRoomId[s]


\* the rooms of Map m whose createdAt is more than 24 hours before now
OlderThanADay(m) == {r \in DOMAIN m : m[r].createdAt + dayMs < now}

\* Map m without the rooms older than a day, the others as they were
WithoutOld(m) == [r \in DOMAIN m \ OlderThanADay(m) |-> m[r]]

\* a client is constructed in tab t: at page load, or later in the loaded page
Constructs(t) == TabOpen(t) \/ TabConstruct(t)

\* C31: rooms are evicted only by the sweep of the constructor.  A step that
\* constructs a client leaves in that page's Map, and in the persisted store,
\* exactly the rooms not older than 24 hours, unchanged; every other step
\* (onState, createRoom, joinRoom, getState, select, endRound, setAnonymous,
\* a poll tick) removes no room, neither from a page's Map nor from the
\* persisted store.
C31_EvictionOnlyInSweep ==
    [][/\ \A t \in Tabs :
            /\ TabOpen(t) => /\ tabRooms'[t] = WithoutOld(lsRooms)
                             /\ lsRooms' = WithoutOld(lsRooms)
            /\ TabConstruct(t) => /\ tabRooms'[t] = WithoutOld(tabRooms[t])
                                  /\ lsRooms' = WithoutOld(tabRooms[t])
            /\ ~Constructs(t) => DOMAIN tabRooms[t] \subseteq DOMAIN tabRooms'[t]
       /\ (\A t \in Tabs : ~Constructs(t)) => DOMAIN lsRooms \subseteq DOMAIN lsRooms'
      ]_vars

\* Within one page the same holds of the page's own Map: a construction
\* leaves exactly the rooms not older than 24 hours, no other step removes one.
OnePageEvictsOnlyInSweep ==
    [][\A t \in LifeTabs :
          /\ TabOpen(t) => tabRooms'[t] = WithoutOld(lsRooms)
          /\ TabConstruct(t) => tabRooms'[t] = WithoutOld(tabRooms[t])
          /\ ~Constructs(t) => DOMAIN tabRooms[t] \subseteq DOMAIN tabRooms'[t]
      ]_vars

\* a construction has just dropped a room created at time 0 and kept a room
\* created at time 1, a day and a moment after time 0
SweepDroppedOneKeptOne ==
    /\ last.op = "construct"
    /\ now = dayMs + 1
    /\ \E r \in RoomIds : r \in DOMAIN tabRooms["t1"] /\ tabRooms["t1"][r].createdAt = 1
    /\ \E r \in RoomIds : r \notin DOMAIN tabRooms["t1"]


\* C32: in the REST servers a participant who joined an unended room with
\* name n can select a catalog symbol by sending the same n: a select step
\* with name n on an unended room that holds the entry a join with n leaves
\* (its name is what the join stores for n; a join with another input that
\* stores the same name leaves the very same state) ends with some
\* participant of the room holding the symbol.  For every n: blank, short,
\* longer than 40 characters.
C32_JoinedNameCanSelect ==
    [][\A r \in RoomIds, n \in NameInputs, y \in Catalog :
          (/\ ApiSelect(r, n, y) \/ ExpressSelect(r, n, y)
           /\ r \in DOMAIN rooms
           /\ ~rooms[r].ended
           /\ FindIndex(rooms[r].participants, StoredName(n)) # 0)
          => \E i \in 1..Len(rooms'[r].participants) :
                rooms'[r].participants[i].symbol = y
      ]_vars


\* the summary of room r in store rs: the servers compute it for every
\* snapshot, the local store keeps it in the room
SummaryOf(rs, r) == IF variant = "local" THEN rs[r].summary ELSE summarize(rs[r])

\* C33: once a room is ended its summary never changes again: every join,
\* select, toggle, end and disconnect step taken while room r is ended leaves
\* the room in the store with the summary it had before the step.
C33_EndedSummaryIsFinal ==
    [][\A r \in RoomIds :
          (/\ r \in DOMAIN rooms
           /\ rooms[r].ended
           /\ last'.op \in {"join", "select", "toggle", "end", "disconnect"})
          => /\ r \in DOMAIN rooms'
             /\ SummaryOf(rooms', r) = SummaryOf(rooms, r)
      ]_vars


\* a handler of connection s other than create_room and join_room runs
UnjoinedHandler(s) ==
    \/ \E symbol \in SymbolInputs : SockSelect(s, symbol)
    \/ SockEndRound(s)
    \/ \E anonymous \in BOOLEAN : SockToggleAnonymous(s, anonymous)
    \/ SockDisconnect(s)
    \/ SockGetState(s)

\* C34: on a Socket.IO connection that has never joined a room, a select,
\* end_round, toggle_anonymous, disconnect or get_state step leaves every room
\* as it was and emits no 'state' event, and get_state answers null.
C34_UnjoinedConnectionChangesNothing ==
    [][\A s \in Sockets :
          (joinedRoomId[s] = Null /\ UnjoinedHandler(s))
          => /\ rooms' = rooms
             /\ out' = NoOut
             /\ SockGetState(s) => last'.res = "null"
      ]_vars

\* a connection that never joined has just disconnected while the store
\* holds a room with a participant
C34_Witness ==
    /\ variant = "socket"
    /\ last.op = "disconnect" /\ last.rid = Null
    /\ out = NoOut
    /\ \E s \in Sockets : conn[s] = "closed" /\ joinedRoomId[s] = Null
    /\ \E r \in DOMAIN rooms : Len(rooms[r].participants) > 0


\* C35: in a page of the local-store client at most one poll timer runs after
\* every step, however many clients are constructed and destroyed.  destroy
\* leaves no timer running and no handler registered; only a construction
\* starts a timer and only a registration (onState) adds a handler; a tick
\* needs a running timer, and a tick with no handler registered calls
\* nothing, so what the handlers were last called with stays.  Hence after
\* destroy no tick calls a handler before a client is constructed and a
\* handler is registered again.
C35_OnePollTimer ==
    [][\A t \in LifeTabs :
          /\ timers'[t] <= 1
          /\ TabDestroy(t) => timers'[t] = 0 /\ stateHandlers'[t] = 0
          /\ timers'[t] > timers[t] => Constructs(t)
          /\ stateHandlers'[t] > stateHandlers[t] => TabOpen(t) \/ TabOnState(t)
          /\ TabPoll(t) => timers[t] > 0
          /\ (TabPoll(t) /\ stateHandlers[t] = 0) => tabShown'[t] = tabShown[t]
      ]_vars

\* after a destroy a client has been constructed again and no handler is
\* registered yet: one timer runs, and the page's current room is in the Map
\* for its ticks
C35_Witness ==
    /\ variant = "local"
    /\ last.op = "construct"
    /\ timers["t1"] = 1 /\ pollInterval["t1"]
    /\ stateHandlers["t1"] = 0
    /\ tabRoomId["t1"] # Null /\ tabRoomId["t1"] \in DOMAIN tabRooms["t1"]

====
